---- MODULE Spec2Model ----
(***************************************************************************)
(* Model of scripts/visualization.py: the two geometry builders            *)
(* (create_colored_box, create_camera_frustum), the closed-form            *)
(* yaw/pitch/roll rotation matrix, and the __main__ driver that maps the   *)
(* object records and the camera records through them and hands the        *)
(* collected geometries to the viewer.                                     *)
(*                                                                         *)
(* Numbers are exact rationals <<n, d>> in lowest terms with d > 0; the    *)
(* pair <<0, 0>> stands for a JSON value that is not a number (null).      *)
(* Floating-point rounding is not modelled.  Python's 0-based indices are  *)
(* kept inside the data (the line segments); TLA+ sequences are 1-based.   *)
(***************************************************************************)
EXTENDS Integers, Sequences, FiniteSets, TLC

VARIABLES concept_graph, camera_poses, pc, idx, exc, geometries, box_calls,
          drawn, fn_in, fn_out

vars == <<concept_graph, camera_poses, pc, idx, exc, geometries, box_calls,
          drawn, fn_in, fn_out>>

driver_vars == <<concept_graph, camera_poses, pc, idx, exc, geometries,
                 box_calls, drawn>>

(* Bounds of the model *)
MaxObjs == 2

MaxCams == 2

(***************************************************************************)
(* Exact arithmetic                                                        *)
(***************************************************************************)
Abs(n) == IF n < 0 THEN -n ELSE n

RECURSIVE GCD(_, _)
GCD(a, b) == IF b = 0 THEN a ELSE GCD(b, a % b)

Rat(n, d) ==
    LET g == GCD(Abs(n), Abs(d))
        s == IF d < 0 THEN -1 ELSE 1
    IN  <<(s * n) \div g, (s * d) \div g>>

I(n) == <<n, 1>>

Null == <<0, 0>>

IsNum(v) == v[2] # 0

RAdd(a, b) == Rat(a[1] * b[2] + b[1] * a[2], a[2] * b[2])

RSub(a, b) == Rat(a[1] * b[2] - b[1] * a[2], a[2] * b[2])

RMul(a, b) == Rat(a[1] * b[1], a[2] * b[2])

RDiv(a, b) == Rat(a[1] * b[2], a[2] * b[1])

RNeg(a) == <<-a[1], a[2]>>

RLt(a, b) == a[1] * b[2] < b[1] * a[2]

(* Python's max(a, b): the first argument unless the second is greater *)
PyMax(a, b) == IF RLt(a, b) THEN b ELSE a

IsVec3(v) == Len(v) = 3 /\ \A k \in 1..3 : IsNum(v[k])

VAdd(a, b) == [k \in 1..3 |-> RAdd(a[k], b[k])]

(* R @ p for a 3x3 matrix R and a 3-vector p *)
MatVec(R, p) ==
    [r \in 1..3 |->
        RAdd(RAdd(RMul(R[r][1], p[1]), RMul(R[r][2], p[2])),
             RMul(R[r][3], p[3]))]

(* The value a call returns, or the fact that it raised *)
Returned(v) == [ok |-> TRUE, val |-> v]

Raised(e) == [ok |-> FALSE, val |-> e]

(***************************************************************************)
(* The geometry library as the script uses it                              *)
(***************************************************************************)
(* TriangleMesh.create_box: one corner at the origin, extending by the     *)
(* full dimension in the positive direction of each axis                   *)
create_box(width, height, depth) ==
    [kind |-> "TriangleMesh",
     lo |-> <<I(0), I(0), I(0)>>,
     hi |-> <<width, height, depth>>,
     color |-> <<>>]

(* box.translate(t): a relative shift of every vertex *)
translate(box, t) ==
    [box EXCEPT !.lo = VAdd(box.lo, t), !.hi = VAdd(box.hi, t)]

paint_uniform_color(box, color) == [box EXCEPT !.color = color]

MinExtent == <<1, 100>>

(* extent = [max(e, 0.01) for e in extent], and the same with the clamp    *)
(* left out                                                                *)
clamp_extent_missing(extent) == extent

clamp_extent(extent) == [k \in 1..Len(extent) |-> PyMax(extent[k], MinExtent)]

(***************************************************************************)
(* create_colored_box, the live (second) definition                        *)
(***************************************************************************)
create_colored_box(center, extent, color) ==
    IF \E k \in 1..Len(extent) : ~IsNum(extent[k])
    THEN Raised("TypeError")
    ELSE IF Len(extent) < 3
    THEN Raised("IndexError")
    ELSE LET ext == clamp_extent(extent)
             box == create_box(RMul(I(2), ext[1]), RMul(I(2), ext[2]),
                               RMul(I(2), ext[3]))
         IN  IF ~IsVec3(center)
             THEN Raised("TypeError")
             ELSE Returned(paint_uniform_color(translate(box, center), color))

(***************************************************************************)
(* create_camera_frustum                                                   *)
(***************************************************************************)
DefaultFx == 500

DefaultFy == 500

DefaultCx == 320

DefaultCy == 240

DefaultWidth == 640

DefaultHeight == 480

DefaultDepth == 5

corners_2d(width, height) ==
    << <<0, 0>>, <<width, 0>>, <<width, height>>, <<0, height>> >>

(* The unprojection with the depth factor left out of x and y *)
unproject_without_depth(uv, fx, fy, cx, cy, depth) ==
    << RDiv(I(uv[1] - cx), I(fx)),
       RDiv(I(uv[2] - cy), I(fy)),
       depth >>

(* x = (u - cx)*depth/fx, y = (v - cy)*depth/fy, z = depth *)
unproject(uv, fx, fy, cx, cy, depth) ==
    << RDiv(RMul(I(uv[1] - cx), depth), I(fx)),
       RDiv(RMul(I(uv[2] - cy), depth), I(fy)),
       depth >>

(* The segment list with the image-plane rectangle left open *)
frustum_lines_open ==
    << <<0, 1>>, <<0, 2>>, <<0, 3>>, <<0, 4>>,
       <<1, 2>>, <<2, 3>>, <<3, 4>>, <<4, 0>> >>

frustum_lines ==
    << <<0, 1>>, <<0, 2>>, <<0, 3>>, <<0, 4>>,
       <<1, 2>>, <<2, 3>>, <<3, 4>>, <<4, 1>> >>

create_camera_frustum(camera_translation, camera_rotation, fx, fy, cx, cy, width, height, depth) ==
    LET cam_center == camera_translation
        R == camera_rotation
        c2 == corners_2d(width, height)
        corners_3d_cam ==
            [k \in 1..Len(c2) |-> unproject(c2[k], fx, fy, cx, cy, depth)]
    IN  IF ~IsVec3(cam_center)
        THEN Raised("TypeError")
        ELSE LET corners_3d_world ==
                     [k \in 1..Len(c2) |->
                         VAdd(MatVec(R, corners_3d_cam[k]), cam_center)]
                 points == <<cam_center>> \o corners_3d_world
                 lines == frustum_lines
             IN  Returned([kind |-> "LineSet",
                           points |-> points,
                           lines |-> lines,
                           colors |-> [k \in 1..Len(lines) |-> <<0, 1, 0>>]])

(***************************************************************************)
(* The driver's rotation matrix.  np.cos and np.sin of np.deg2rad(a) are   *)
(* taken at their exact values, which restricts a to multiples of 90.      *)
(***************************************************************************)
Angles == {0, 90, 180, 270, -90}

Cos(deg) ==
    LET q == (deg % 360) \div 90
    IN  IF q = 0 THEN I(1) ELSE IF q = 2 THEN I(-1) ELSE I(0)

Sin(deg) ==
    LET q == (deg % 360) \div 90
    IN  IF q = 1 THEN I(1) ELSE IF q = 3 THEN I(-1) ELSE I(0)

(* The closed form with the sign of one term of the first row flipped *)
rotation_matrix_sign_slip(yaw, pitch, roll) ==
    LET cy == Cos(yaw)
        sy == Sin(yaw)
        cp == Cos(pitch)
        sp == Sin(pitch)
        cr == Cos(roll)
        sr == Sin(roll)
    IN  << << RMul(cy, cp),
              RAdd(RMul(RMul(cy, sp), sr), RMul(sy, cr)),
              RAdd(RMul(RMul(cy, sp), cr), RMul(sy, sr)) >>,
           << RMul(sy, cp),
              RAdd(RMul(RMul(sy, sp), sr), RMul(cy, cr)),
              RSub(RMul(RMul(sy, sp), cr), RMul(cy, sr)) >>,
           << RNeg(sp), RMul(cp, sr), RMul(cp, cr) >> >>

rotation_matrix(yaw, pitch, roll) ==
    LET cy == Cos(yaw)
        sy == Sin(yaw)
        cp == Cos(pitch)
        sp == Sin(pitch)
        cr == Cos(roll)
        sr == Sin(roll)
    IN  << << RMul(cy, cp),
              RSub(RMul(RMul(cy, sp), sr), RMul(sy, cr)),
              RAdd(RMul(RMul(cy, sp), cr), RMul(sy, sr)) >>,
           << RMul(sy, cp),
              RAdd(RMul(RMul(sy, sp), sr), RMul(cy, cr)),
              RSub(RMul(RMul(sy, sp), cr), RMul(cy, sr)) >>,
           << RNeg(sp), RMul(cp, sr), RMul(cp, cr) >> >>

(***************************************************************************)
(* Inputs: the two JSON documents                                          *)
(***************************************************************************)
V(x, y, z) == <<I(x), I(y), I(z)>>

Keys == {"obj_1", "obj_2", "obj_3"}

ObjectRecords ==
    { [id |-> 0, bbox_center |-> V(0, 0, 0), bbox_extent |-> V(1, 1, 1)],
      [id |-> 7, bbox_center |-> V(1, 2, 3),
                 bbox_extent |-> <<I(0), I(-1), <<1, 200>> >>],
      [id |-> 1, bbox_center |-> <<I(1), I(2)>>, bbox_extent |-> V(1, 1, 1)],
      [id |-> 6, bbox_extent |-> V(2, 1, 1)] }

Entries == {[key |-> k, obj |-> o] : k \in Keys, o \in ObjectRecords}

(* A JSON object keeps one value per key, in file order *)
DistinctKeys(s) ==
    \A j, k \in 1..Len(s) : j # k => s[j].key # s[k].key

SeqsUpTo(S, n) == UNION {[1..m -> S] : m \in 0..n}

ConceptGraphs == {s \in SeqsUpTo(Entries, MaxObjs) : DistinctKeys(s)}

Pos(x, y, z) == [x |-> x, y |-> y, z |-> z]

CameraRecords ==
    { [camera_position |-> Pos(I(0), I(0), I(0)),
       camera_orientation |-> [yaw |-> 0, pitch |-> 0, roll |-> 0]],
      [camera_position |-> Pos(I(1), I(2), I(3)),
       camera_orientation |-> [yaw |-> 90, pitch |-> 0, roll |-> 180]],
      [camera_position |-> Pos(I(1), I(0), I(0)),
       camera_orientation |-> [pitch |-> 0, roll |-> 0]],
      [camera_position |-> Pos(Null, I(0), I(0)),
       camera_orientation |-> [yaw |-> 0, pitch |-> 90, roll |-> 0]],
      [camera_orientation |-> [yaw |-> 0, pitch |-> 0, roll |-> 0]] }

CameraPoses ==
    {[cameras |-> s] : s \in SeqsUpTo(CameraRecords, MaxCams)}
        \cup {[frames |-> <<>>]}

(***************************************************************************)
(* The driver                                                              *)
(***************************************************************************)
color_palette ==
    << <<1, 0, 0>>, <<0, 1, 0>>, <<0, 0, 1>>,
       <<1, 1, 0>>, <<1, 0, 1>>, <<0, 1, 1>> >>

(* The palette indexed by the record's position instead of its id *)
pick_color_by_position(id) == color_palette[(idx % Len(color_palette)) + 1]

(* color_palette[obj["id"] % len(color_palette)] *)
pick_color(id) == color_palette[(id % Len(color_palette)) + 1]

(* camera_poses.get("cameras", []) *)
cameras ==
    IF "cameras" \in DOMAIN camera_poses THEN camera_poses.cameras ELSE <<>>

ObjectKeys == <<"bbox_center", "bbox_extent", "id">>

ObjectHasKeys(obj) == \A k \in 1..Len(ObjectKeys) : ObjectKeys[k] \in DOMAIN obj

CameraHasKeys(cam) ==
    /\ "camera_position" \in DOMAIN cam
    /\ "camera_orientation" \in DOMAIN cam
    /\ {"x", "y", "z"} \subseteq DOMAIN cam.camera_position
    /\ {"yaw", "pitch", "roll"} \subseteq DOMAIN cam.camera_orientation

NoCall == [fn |-> "none"]

Init ==
    /\ concept_graph \in ConceptGraphs
    /\ camera_poses \in CameraPoses
    /\ pc = "objects"
    /\ idx = 1
    /\ exc = "none"
    /\ geometries = <<>>
    /\ box_calls = <<>>
    /\ drawn = <<>>
    /\ fn_in = NoCall
    /\ fn_out = NoCall

(* The object loop without its try/except: the exception ends the run *)
box_except_missing(e) ==
    /\ exc' = e
    /\ UNCHANGED <<idx, geometries>>

(* except Exception as e: the error is printed and the loop goes on *)
box_except(e) ==
    /\ idx' = idx + 1
    /\ UNCHANGED <<exc, geometries>>

(* One iteration of the object loop *)
ObjectIter ==
    /\ pc = "objects" /\ exc = "none"
    /\ idx <= Len(concept_graph)
    /\ LET obj == concept_graph[idx].obj
       IN  IF ~ObjectHasKeys(obj)
           THEN /\ exc' = "KeyError"
                /\ UNCHANGED <<idx, geometries, box_calls>>
           ELSE LET color == pick_color(obj.id)
                    r == create_colored_box(obj.bbox_center, obj.bbox_extent,
                                            color)
                IN  /\ box_calls' = Append(box_calls,
                            [at |-> idx, center |-> obj.bbox_center,
                             extent |-> obj.bbox_extent, color |-> color])
                    /\ IF r.ok
                       THEN /\ geometries' = Append(geometries, r.val)
                            /\ idx' = idx + 1
                            /\ exc' = exc
                       ELSE box_except(r.val)
    /\ UNCHANGED <<concept_graph, camera_poses, pc, drawn, fn_in, fn_out>>

(* The object loop is over: camera_poses.json is loaded *)
LoadCameras ==
    /\ pc = "objects" /\ exc = "none"
    /\ idx > Len(concept_graph)
    /\ pc' = "cameras"
    /\ idx' = 1
    /\ UNCHANGED <<concept_graph, camera_poses, exc, geometries, box_calls,
                   drawn, fn_in, fn_out>>

(* The camera loop with an except clause that skips the record *)
camera_raise_skipped(e) ==
    /\ idx' = idx + 1
    /\ UNCHANGED <<exc, geometries>>

(* Nothing in the camera loop catches: the exception ends the run *)
camera_raise(e) ==
    /\ exc' = e
    /\ UNCHANGED <<idx, geometries>>

(* One iteration of the camera loop *)
CameraIter ==
    /\ pc = "cameras" /\ exc = "none"
    /\ idx <= Len(cameras)
    /\ LET cam == cameras[idx]
       IN  IF ~CameraHasKeys(cam)
           THEN camera_raise("KeyError")
           ELSE LET p == cam.camera_position
                    o == cam.camera_orientation
                    translation == <<p.x, p.y, p.z>>
                    r == create_camera_frustum(translation,
                             rotation_matrix(o.yaw, o.pitch, o.roll),
                             DefaultFx, DefaultFy, DefaultCx, DefaultCy,
                             DefaultWidth, DefaultHeight, I(DefaultDepth))
                IN  IF r.ok
                    THEN /\ geometries' = Append(geometries, r.val)
                         /\ idx' = idx + 1
                         /\ exc' = exc
                    ELSE camera_raise(r.val)
    /\ UNCHANGED <<concept_graph, camera_poses, pc, box_calls, drawn,
                   fn_in, fn_out>>

(* The viewer call indented into the camera loop *)
VisualizeInsideLoop ==
    /\ pc = "cameras" /\ exc = "none"
    /\ drawn' = Append(drawn, geometries)
    /\ pc' = IF idx > Len(cameras) THEN "done" ELSE pc
    /\ UNCHANGED <<concept_graph, camera_poses, idx, exc, geometries,
                   box_calls, fn_in, fn_out>>

(* o3d.visualization.draw_geometries(geometries) *)
Visualize ==
    /\ pc = "cameras" /\ exc = "none"
    /\ idx > Len(cameras)
    /\ drawn' = Append(drawn, geometries)
    /\ pc' = "done"
    /\ UNCHANGED <<concept_graph, camera_poses, idx, exc, geometries,
                   box_calls, fn_in, fn_out>>

Next == ObjectIter \/ LoadCameras \/ CameraIter \/ Visualize

Spec == Init /\ [][Next]_vars

(***************************************************************************)
(* The builders called on their own (the module imported, not run), over   *)
(* bounded sets of arguments                                               *)
(***************************************************************************)
Centers == {V(0, 0, 0), V(1, 2, 3), V(-1, 0, 5), <<I(1), I(2)>>}

ExtentValues == {I(-1), I(0), <<1, 200>>, <<1, 100>>, <<1, 50>>, I(1)}

Extents == {<<a, b, c>> : a \in ExtentValues, b \in ExtentValues,
                          c \in ExtentValues}

BoxInputs ==
    {[fn |-> "create_colored_box", center |-> c, extent |-> e,
      color |-> col] : c \in Centers, e \in Extents, col \in {<<1, 0, 0>>}}

Identity3 == <<V(1, 0, 0), V(0, 1, 0), V(0, 0, 1)>>

Rotations ==
    {Identity3, rotation_matrix(90, 0, 0), <<V(2, 0, 0), V(1, 1, 0), V(0, 0, 0)>>}

FrustumInputs ==
    {[fn |-> "create_camera_frustum", camera_translation |-> t,
      camera_rotation |-> R, fx |-> fx, fy |-> fy, cx |-> cx, cy |-> cy,
      width |-> w, height |-> h, depth |-> d] :
        t \in {V(0, 0, 0), V(1, 2, 3)}, R \in Rotations,
        fx \in {DefaultFx, 250}, fy \in {DefaultFy}, cx \in {DefaultCx, 0},
        cy \in {DefaultCy}, w \in {DefaultWidth, 1}, h \in {DefaultHeight},
        d \in {I(DefaultDepth), I(1), <<5, 2>>}}

RotationInputs ==
    {[fn |-> "rotation_matrix", yaw |-> y, pitch |-> p, roll |-> r] :
        y \in Angles, p \in Angles, r \in Angles}

InitLib ==
    /\ concept_graph = <<>>
    /\ camera_poses = [cameras |-> <<>>]
    /\ pc = "imported"
    /\ idx = 1
    /\ exc = "none"
    /\ geometries = <<>>
    /\ box_calls = <<>>
    /\ drawn = <<>>
    /\ \/ fn_in \in BoxInputs
       \/ fn_in \in FrustumInputs
       \/ fn_in \in RotationInputs
    /\ fn_out = NoCall

CallBox ==
    /\ pc = "imported" /\ fn_out = NoCall
    /\ fn_in.fn = "create_colored_box"
    /\ fn_out' = create_colored_box(fn_in.center, fn_in.extent, fn_in.color)
    /\ UNCHANGED <<driver_vars, fn_in>>

CallFrustum ==
    /\ pc = "imported" /\ fn_out = NoCall
    /\ fn_in.fn = "create_camera_frustum"
    /\ fn_out' = create_camera_frustum(fn_in.camera_translation,
                     fn_in.camera_rotation, fn_in.fx, fn_in.fy, fn_in.cx,
                     fn_in.cy, fn_in.width, fn_in.height, fn_in.depth)
    /\ UNCHANGED <<driver_vars, fn_in>>

CallRotation ==
    /\ pc = "imported" /\ fn_out = NoCall
    /\ fn_in.fn = "rotation_matrix"
    /\ fn_out' = Returned(rotation_matrix(fn_in.yaw, fn_in.pitch, fn_in.roll))
    /\ UNCHANGED <<driver_vars, fn_in>>

NextLib == CallBox \/ CallFrustum \/ CallRotation

SpecLib == InitLib /\ [][NextLib]_vars

(***************************************************************************)
(* Properties                                                              *)
(***************************************************************************)
Red == <<1, 0, 0>>

Green == <<0, 1, 0>>

Blue == <<0, 0, 1>>

Yellow == <<1, 1, 0>>

Magenta == <<1, 0, 1>>

Cyan == <<0, 1, 1>>

NamedPalette == <<Red, Green, Blue, Yellow, Magenta, Cyan>>

BoxReturned ==
    fn_in.fn = "create_colored_box" /\ "ok" \in DOMAIN fn_out /\ fn_out.ok

FrustumReturned ==
    fn_in.fn = "create_camera_frustum" /\ "ok" \in DOMAIN fn_out /\ fn_out.ok

RotationReturned ==
    fn_in.fn = "rotation_matrix" /\ "ok" \in DOMAIN fn_out /\ fn_out.ok

(* The midpoint of a box's minimum and maximum corners *)
Midpoint(box) == [k \in 1..3 |-> RDiv(RAdd(box.lo[k], box.hi[k]), I(2))]

(* C1: an object record that has no bbox_center field does not abort the   *)
(* run: the driver never stops with an uncaught exception at such a record *)
C1_MissingCenterDoesNotAbort ==
    ~( /\ pc = "objects"
       /\ exc # "none"
       /\ "bbox_center" \notin DOMAIN concept_graph[idx].obj )

(* Record k has every key the loop reads, and building its box raises *)
BoxFails(k) ==
    LET obj == concept_graph[k].obj
    IN  /\ ObjectHasKeys(obj)
        /\ ~create_colored_box(obj.bbox_center, obj.bbox_extent,
                               pick_color(obj.id)).ok

C3_BoxCenterIsInputCenter ==
    BoxReturned => Midpoint(fn_out.val) = fn_in.center

C4Input ==
    [fn |-> "create_camera_frustum", camera_translation |-> V(0, 0, 0),
     camera_rotation |-> Identity3, fx |-> 500, fy |-> 500, cx |-> 320,
     cy |-> 240, width |-> 640, height |-> 480, depth |-> I(5)]

(* C4 as stated: for the camera at the origin with identity rotation and   *)
(* the default intrinsics, points 1..4 are (-1.6,-1.2,5), (1.6,-1.2,5),    *)
(* (1.6,1.2,5), (-1.6,1.2,5)                                               *)
C4_StatedCorners ==
    (fn_in = C4Input /\ FrustumReturned) =>
        fn_out.val.points =
            << V(0, 0, 0),
               << <<-8, 5>>, <<-6, 5>>, I(5) >>,
               << <<8, 5>>, <<-6, 5>>, I(5) >>,
               << <<8, 5>>, <<6, 5>>, I(5) >>,
               << <<-8, 5>>, <<6, 5>>, I(5) >> >>

(* C4 amended: for the camera at the origin with identity rotation and the *)
(* default intrinsics, point 0 is (0,0,0) and points 1..4 are              *)
(* (-3.2,-2.4,5), (3.2,-2.4,5), (3.2,2.4,5), (-3.2,2.4,5)                  *)
C4_PinholeCorners ==
    (fn_in = C4Input /\ FrustumReturned) =>
        fn_out.val.points =
            << V(0, 0, 0),
               << <<-16, 5>>, <<-12, 5>>, I(5) >>,
               << <<16, 5>>, <<-12, 5>>, I(5) >>,
               << <<16, 5>>, <<12, 5>>, I(5) >>,
               << <<-16, 5>>, <<12, 5>>, I(5) >> >>

C4_Witness == fn_in = C4Input /\ FrustumReturned

(* C5: the box built has, on each axis, full dimension 2*max(e, 0.01):     *)
(* 0.02 where the extent component is at most 0.01, twice the component    *)
(* where it is above                                                       *)
C5_ClampedDimensions ==
    BoxReturned =>
        \A k \in 1..3 :
            LET e == fn_in.extent[k]
                dim == RSub(fn_out.val.hi[k], fn_out.val.lo[k])
            IN  IF RLt(<<1, 100>>, e)
                THEN dim = RMul(I(2), e)
                ELSE dim = <<1, 50>>

(* A box built from a negative, a boundary and a large extent component *)
C5_Witness ==
    BoxReturned /\ fn_in.extent = <<I(-1), <<1, 100>>, I(1)>>

(* C6: create_camera_frustum returns exactly 5 points, point 0 the camera  *)
(* center, and exactly the segments 0-1, 0-2, 0-3, 0-4, 1-2, 2-3, 3-4, 4-1 *)
C6_FivePointsEightLines ==
    FrustumReturned =>
        /\ Len(fn_out.val.points) = 5
        /\ fn_out.val.points[1] = fn_in.camera_translation
        /\ fn_out.val.lines =
               << <<0, 1>>, <<0, 2>>, <<0, 3>>, <<0, 4>>,
                  <<1, 2>>, <<2, 3>>, <<3, 4>>, <<4, 1>> >>

(* A frustum built with intrinsics, image size and depth off the defaults *)
C6_Witness ==
    /\ FrustumReturned
    /\ fn_in.fx = 250 /\ fn_in.cx = 0 /\ fn_in.width = 1
    /\ fn_in.depth = <<5, 2>>
    /\ fn_in.camera_rotation # Identity3

(* C7: the color passed to create_colored_box for a record is              *)
(* palette[id % 6] of [red, green, blue, yellow, magenta, cyan]; records   *)
(* with ids congruent modulo 6 get the same color                          *)
C7_ColorByIdMod6 ==
    /\ \A k \in 1..Len(box_calls) :
           LET id == concept_graph[box_calls[k].at].obj.id
           IN  box_calls[k].color = NamedPalette[(id % 6) + 1]
    /\ \A j, k \in 1..Len(box_calls) :
           LET idj == concept_graph[box_calls[j].at].obj.id
               idk == concept_graph[box_calls[k].at].obj.id
           IN  (idj % 6 = idk % 6) => box_calls[j].color = box_calls[k].color

(* Two records with ids 7 and 1, under different keys, both colored green *)
C7_Witness ==
    /\ Len(box_calls) = 2
    /\ concept_graph[1].obj.id = 7 /\ concept_graph[2].obj.id = 1
    /\ concept_graph[1].key = "obj_3" /\ concept_graph[2].key = "obj_1"
    /\ box_calls[1].color = Green /\ box_calls[2].color = Green

(* Camera record k lacks a required key, or its frustum raises *)
CameraFails(k) ==
    LET cam == cameras[k]
    IN  \/ ~CameraHasKeys(cam)
        \/ LET p == cam.camera_position
               o == cam.camera_orientation
           IN  ~create_camera_frustum(<<p.x, p.y, p.z>>,
                    rotation_matrix(o.yaw, o.pitch, o.roll),
                    DefaultFx, DefaultFy, DefaultCx, DefaultCy,
                    DefaultWidth, DefaultHeight, I(DefaultDepth)).ok

(* C8: at a camera record that lacks a required key or whose frustum       *)
(* raises, the run ends with an uncaught exception at that record with the *)
(* viewer not invoked, and a run that has ended takes no further step      *)
C8_CameraErrorIsFatal ==
    [][ /\ exc = "none"
        /\ ( ( /\ pc = "cameras"
               /\ idx <= Len(cameras)
               /\ CameraFails(idx) )
             => ( /\ exc' # "none"
                  /\ pc' = "cameras"
                  /\ idx' = idx
                  /\ geometries' = geometries
                  /\ drawn = <<>> /\ drawn' = <<>> ) ) ]_vars

(* A run ended at its first camera record, with a box already built and a  *)
(* later camera record left unprocessed                                    *)
C8_Witness ==
    /\ pc = "cameras" /\ exc # "none"
    /\ idx = 1 /\ Len(cameras) = 2
    /\ Len(geometries) >= 1
    /\ drawn = <<>>

RECURSIVE BuiltBoxes(_)
BuiltBoxes(n) ==
    IF n = 0 THEN <<>>
    ELSE LET obj == concept_graph[n].obj
             r == create_colored_box(obj.bbox_center, obj.bbox_extent,
                                     NamedPalette[(obj.id % 6) + 1])
         IN  IF r.ok THEN Append(BuiltBoxes(n - 1), r.val)
             ELSE BuiltBoxes(n - 1)

BuiltFrustums ==
    [k \in 1..Len(cameras) |->
        LET p == cameras[k].camera_position
            o == cameras[k].camera_orientation
        IN  create_camera_frustum(<<p.x, p.y, p.z>>,
                rotation_matrix(o.yaw, o.pitch, o.roll),
                DefaultFx, DefaultFy, DefaultCx, DefaultCy,
                DefaultWidth, DefaultHeight, I(DefaultDepth)).val]

(* C9: the viewer is invoked at most once, only at the end of the run, and *)
(* its argument is the boxes of the successfully built records in record   *)
(* order followed by one frustum per camera record in list order           *)
C9_ViewerGetsBoxesThenFrustums ==
    /\ Len(drawn) <= 1
    /\ (Len(drawn) = 1) <=> (pc = "done")
    /\ pc = "done" =>
          /\ exc = "none"
          /\ drawn[1] = BuiltBoxes(Len(concept_graph)) \o BuiltFrustums
          /\ Len(drawn[1]) =
                 Len(BuiltBoxes(Len(concept_graph))) + Len(cameras)
          /\ \A j, k \in 1..Len(drawn[1]) :
                 (drawn[1][j].kind = "LineSet" /\ j < k)
                     => drawn[1][k].kind = "LineSet"

(* The viewer shown two boxes, a record skipped between none, and two      *)
(* frustums                                                                *)
C9_Witness ==
    /\ pc = "done"
    /\ Len(drawn) = 1
    /\ Len(drawn[1]) = 4
    /\ drawn[1][1] # drawn[1][2]
    /\ drawn[1][2].kind = "TriangleMesh"
    /\ drawn[1][3].kind = "LineSet"
    /\ drawn[1][3] # drawn[1][4]

MatMul(A, B) ==
    [r \in 1..3 |->
        [c \in 1..3 |->
            RAdd(RAdd(RMul(A[r][1], B[1][c]), RMul(A[r][2], B[2][c])),
                 RMul(A[r][3], B[3][c]))]]

Rz(a) == << <<Cos(a), RNeg(Sin(a)), I(0)>>,
            <<Sin(a), Cos(a), I(0)>>,
            <<I(0), I(0), I(1)>> >>

Ry(a) == << <<Cos(a), I(0), Sin(a)>>,
            <<I(0), I(1), I(0)>>,
            <<RNeg(Sin(a)), I(0), Cos(a)>> >>

Rx(a) == << <<I(1), I(0), I(0)>>,
            <<I(0), Cos(a), RNeg(Sin(a))>>,
            <<I(0), Sin(a), Cos(a)>> >>

Dot(u, v) == RAdd(RAdd(RMul(u[1], v[1]), RMul(u[2], v[2])), RMul(u[3], v[3]))

Det(M) ==
    RAdd(RSub(RMul(M[1][1], RSub(RMul(M[2][2], M[3][3]),
                                 RMul(M[2][3], M[3][2]))),
              RMul(M[1][2], RSub(RMul(M[2][1], M[3][3]),
                                 RMul(M[2][3], M[3][1])))),
         RMul(M[1][3], RSub(RMul(M[2][1], M[3][2]),
                            RMul(M[2][2], M[3][1]))))

(* C10: for yaw, pitch and roll multiples of 90 degrees, the closed-form   *)
(* matrix equals Rz(yaw).Ry(pitch).Rx(roll), is the identity at zero       *)
(* angles, and has orthonormal rows and determinant +1                     *)
C10_ClosedFormIsRzRyRx ==
    RotationReturned =>
        LET M == fn_out.val
        IN  /\ M = MatMul(MatMul(Rz(fn_in.yaw), Ry(fn_in.pitch)),
                          Rx(fn_in.roll))
            /\ (fn_in.yaw = 0 /\ fn_in.pitch = 0 /\ fn_in.roll = 0)
                   => M = Identity3
            /\ \A r, c \in 1..3 :
                   Dot(M[r], M[c]) = IF r = c THEN I(1) ELSE I(0)
            /\ Det(M) = I(1)

(* The matrix of three quarter turns that differ *)
C10_Witness ==
    /\ RotationReturned
    /\ fn_in.yaw = 90 /\ fn_in.pitch = 180 /\ fn_in.roll = 270

====
